---------------------------- MODULE Spec2Model ----------------------------
(***************************************************************************)
(* MCPCoordinator (src/src-tauri/src/mcp.rs): a service registry, a tool   *)
(* registry and a message queue, each behind its own tokio RwLock, used by *)
(* concurrent callers.  Every async method is cut at its .await points: a  *)
(* call step that starts the method and asks for its first lock, and one   *)
(* step per critical section.  Timestamps (Utc::now) and the fields no     *)
(* method reads (endpoint, metadata, description, version) are left out.   *)
(***************************************************************************)
EXTENDS Naturals, Sequences, FiniteSets, TLC

(* ------------------------------ bounds --------------------------------- *)

\* Number of coordinator calls started in one behaviour: of all the methods,
\* of the registry methods alone, of the queue methods alone.
MaxCalls == 2

MaxRegistryCalls == 3

MaxQueueCalls == 3

\* Number of execute_tool and deregister_service calls of three callers.
MaxExecuteCalls == 3

\* Number of execute_tool, deregister_service and receive_messages calls of
\* three callers under fair scheduling.
MaxLiveCalls == 3

\* Number of deregister_service, get_services, get_tools and health_check
\* calls of three callers.
MaxObserveCalls == 3

\* Concurrent callers (tasks holding a clone of the coordinator).
Procs == {1, 2}

\* Three callers: two execute_tool calls and a writer beside them.
ExecuteProcs == {1, 2, 3}

NoProc == 0

(* ------------------------------- data ---------------------------------- *)

MCPServiceStatus == {"Online", "Offline", "Error", "Connecting"}

MCPMessageType ==
    {"Request", "Response", "Event", "Heartbeat", "Registration", "Deregistration"}

LockNames == {"services", "tools", "message_queue"}

\* Service ids the callers use: two seeded ones and one that is not seeded.
ServiceIdInputs == {"stagewise_mcp", "ag_ui_mcp", "svc1"}

\* Statuses the callers register services with.
StatusInputs == {"Online", "Connecting", "Offline"}

\* Tool ids the callers use: two seeded ones and one that is never registered.
ToolIdInputs == {"visual_editor", "component_generator", "tool1"}

\* JSON parameter payloads the callers pass to execute_tool.
ParamInputs == {[x |-> 1], [x |-> 2]}

MCPService(id, name, status, capabilities) ==
    [id |-> id, name |-> name, status |-> status, capabilities |-> capabilities]

MCPTool(id, name, service_id, capabilities, schema) ==
    [id |-> id, name |-> name, service_id |-> service_id,
     capabilities |-> capabilities, schema |-> schema]

MCPMessage(id, message_type, source, target, payload) ==
    [id |-> id, message_type |-> message_type, source |-> source,
     target |-> target, payload |-> payload]

NoService == MCPService("", "", "Offline", {})

NoPayload == [tool_id |-> "", parameters |-> [x |-> 0]]

NoMessage == MCPMessage(0, "Event", "", "", NoPayload)

\* The maps initialize_default_services builds.
DefaultServices ==
    [id \in {"stagewise_mcp", "ag_ui_mcp", "agent_zero_mcp"} |->
        CASE id = "stagewise_mcp" ->
                MCPService(id, "Stagewise Visual Programming", "Online",
                    {"visual_programming", "workflow_automation", "ui_generation"})
          [] id = "ag_ui_mcp" ->
                MCPService(id, "AG-UI Component Generator", "Online",
                    {"ui_generation", "component_creation", "interaction_design"})
          [] OTHER ->
                MCPService(id, "Agent Zero Organic Intelligence", "Online",
                    {"organic_learning", "adaptive_behavior", "autonomous_operation"})]

DefaultTools ==
    [id \in {"visual_editor", "component_generator", "organic_agent"} |->
        CASE id = "visual_editor" ->
                MCPTool(id, "Visual Editor", "stagewise_mcp",
                    {"create_workflow", "edit_workflow"},
                    {"workflow_id", "nodes", "connections"})
          [] id = "component_generator" ->
                MCPTool(id, "Component Generator", "ag_ui_mcp",
                    {"generate_component", "customize_component"},
                    {"description", "component_type", "style_preferences"})
          [] OTHER ->
                MCPTool(id, "Organic Agent", "agent_zero_mcp",
                    {"learn", "adapt", "execute"},
                    {"task", "context", "learning_mode"})]

\* Services a caller can pass to register_service.
ServiceInputs ==
    {MCPService(id, "Caller Service", st, {"analyze"}) :
        id \in ServiceIdInputs, st \in StatusInputs}

\* Envelopes a caller can pass to send_message (the id is added at the call).
EnvelopeInputs ==
    {[message_type |-> "Heartbeat", source |-> "client", target |-> "svc1"],
     [message_type |-> "Request", source |-> "client", target |-> "nowhere"]}

(* ------------------------------ state ---------------------------------- *)

VARIABLES
    services,       \* HashMap<String, MCPService>
    tools,          \* HashMap<String, MCPTool>
    message_queue,  \* Vec<MCPMessage>
    locks,          \* per RwLock: its readers, its writer, its FIFO of waiters
    pc,             \* per caller: where its current call stands
    call,           \* per caller: the method called and its arguments
    local,          \* per caller: the locals of the running method
    ret,            \* per caller: what its last call returned
    calls,          \* number of calls started (also the source of fresh ids)
    limit,          \* number of calls the callers start in all (never changes)
    enqueued,       \* history: the envelopes in the order their sends pushed them
    delivered,      \* history: the envelopes in the order the drains returned them
    latest          \* history: per service id, the calls no later call on it follows

vars == <<services, tools, message_queue, locks, pc, call, local, ret, calls,
          limit, enqueued, delivered, latest>>

(* ------------------------- maps and sequences -------------------------- *)

\* An insert that keeps the entry already stored under k.
MapInsertIfAbsent(m, k, v) == [x \in DOMAIN m \cup {k} |-> IF x \in DOMAIN m THEN m[x] ELSE v]

\* HashMap::insert
MapInsert(m, k, v) == [x \in DOMAIN m \cup {k} |-> IF x = k THEN v ELSE m[x]]

\* A removal that keeps the entry and marks it Offline.
MapRemoveOffline(m, k) ==
    [x \in DOMAIN m |-> IF x = k THEN [m[x] EXCEPT !.status = "Offline"] ELSE m[x]]

MapRemoveNothing(m, k) == m

\* HashMap::remove
MapRemove(m, k) == [x \in DOMAIN m \ {k} |-> m[x]]

\* A retain that keeps every tool and blanks the owner of those of sid.
RetainDisowning(m, sid) ==
    [x \in DOMAIN m |->
        IF m[x].service_id = sid THEN [m[x] EXCEPT !.service_id = ""] ELSE m[x]]

\* A retain that compares the tool's own id with sid.
RetainOtherIds(m, sid) ==
    [x \in {y \in DOMAIN m : m[y].id # sid} |-> m[x]]

\* A retain that keeps every tool.
RetainAll(m, sid) == m

RetainSameService(m, sid) ==
    [x \in {y \in DOMAIN m : m[y].service_id = sid} |-> m[x]]

\* HashMap::retain(|_, v| keep(v)) with keep = "service_id differs from sid"
RetainOtherServices(m, sid) ==
    [x \in {y \in DOMAIN m : m[y].service_id # sid} |-> m[x]]

\* HashMap::values().cloned().collect(): iteration order is unspecified
MapValues(m) == {m[x] : x \in DOMAIN m}

SeqRange(s) == {s[i] : i \in 1..Len(s)}

(* ------------------------------ RwLock --------------------------------- *)
(* tokio::sync::RwLock is fair: waiters queue in FIFO order and a waiting  *)
(* writer takes every free permit, so later readers queue behind it.       *)

FreeLock == [readers |-> {}, writer |-> NoProc, waiters |-> <<>>]

CanGrant(lk, mode) ==
    IF mode = "read" THEN lk.writer = NoProc
    ELSE lk.writer = NoProc /\ lk.readers = {}

GrantTo(lk, p, mode) ==
    IF mode = "read" THEN [lk EXCEPT !.readers = @ \cup {p}]
    ELSE [lk EXCEPT !.writer = p]

\* read().await / write().await, first poll
Acquire(lk, p, mode) ==
    IF lk.waiters = <<>> /\ CanGrant(lk, mode)
    THEN GrantTo(lk, p, mode)
    ELSE [lk EXCEPT !.waiters = Append(@, [proc |-> p, mode |-> mode])]

\* released permits go to the waiters from the head of the queue
RECURSIVE Wake(_)
Wake(lk) ==
    IF lk.waiters # <<>> /\ CanGrant(lk, Head(lk.waiters).mode)
    THEN Wake([GrantTo(lk, Head(lk.waiters).proc, Head(lk.waiters).mode)
                 EXCEPT !.waiters = Tail(lk.waiters)])
    ELSE lk

\* guard drop
Release(lk, p) ==
    Wake([lk EXCEPT !.readers = @ \ {p},
                    !.writer = IF @ = p THEN NoProc ELSE @])

HoldsRead(name, p) == p \in locks[name].readers

HoldsWrite(name, p) == locks[name].writer = p

(* ------------------------------ results -------------------------------- *)

Pending == [status |-> "pending", value |-> <<>>]

Ok(v) == [status |-> "ok", value |-> v]

Err(v) == [status |-> "err", value |-> v]

\* An error message that names a tool whatever was looked up.
NotFoundTool(kind, id) == <<"Tool", " '", id, "' not found">>

\* anyhow!("Tool '{}' not found", tool_id) / anyhow!("Service '{}' not found", ..)
NotFound(kind, id) == <<kind, " '", id, "' not found">>

LookupOrAny(m, kind, k) ==
    IF k \in DOMAIN m THEN Ok(m[k])
    ELSE IF DOMAIN m # {} THEN Ok(m[CHOOSE x \in DOMAIN m : TRUE])
    ELSE Err(NotFound(kind, k))

\* map.get(k).ok_or_else(|| anyhow!("<kind> '{}' not found", k))
Lookup(m, kind, k) ==
    IF k \in DOMAIN m THEN Ok(m[k]) ELSE Err(NotFound(kind, k))

NoCall == [op |-> "none", id |-> "", service |-> NoService,
           message |-> NoMessage, parameters |-> [x |-> 0], seen |-> 0, number |-> 0]

\* What a call keeps on its stack: the envelope and tool of execute_tool, the
\* health_status map being built, whether services.remove(..) found an entry.
NoLocal == [message |-> NoMessage, tool |-> MCPTool("", "", "", {}, {}), upto |-> 0,
            health_status |-> [id \in {} |-> "Online"], removed |-> FALSE]

(* ------------------------------ history -------------------------------- *)

\* A register_service or deregister_service call on id begins: the calls on id
\* that had returned are followed by it, and stop being the latest.
Begin(h, id, p, op) ==
    [h EXCEPT ![id] = {c \in @ : ~c.done} \cup {[proc |-> p, op |-> op, done |-> FALSE]}]

\* The call of p on id returns.
Finish(h, id, p) ==
    [h EXCEPT ![id] = {IF c.proc = p THEN [c EXCEPT !.done = TRUE] ELSE c : c \in @}]

(* ------------------------------- Init ---------------------------------- *)

InitFor(budget, procs) ==
    /\ limit = budget
    /\ services = DefaultServices
    /\ tools = DefaultTools
    /\ message_queue = <<>>
    /\ locks = [n \in LockNames |-> FreeLock]
    /\ pc = [p \in procs |-> "idle"]
    /\ call = [p \in procs |-> NoCall]
    /\ local = [p \in procs |-> NoLocal]
    /\ ret = [p \in procs |-> Pending]
    /\ calls = 0
    /\ enqueued = <<>>
    /\ delivered = <<>>
    /\ latest = [id \in ServiceIdInputs |-> {}]

InitWith(budget) == InitFor(budget, Procs)

Init == InitWith(MaxCalls)

\* A caller starts method op: the arguments are stored, the first lock asked for.
Start(p, op, c, lock, mode, at) ==
    /\ pc[p] = "idle"
    /\ calls < limit
    /\ calls' = calls + 1
    /\ call' = [call EXCEPT ![p] = [c EXCEPT !.op = op, !.number = calls + 1]]
    /\ local' = [local EXCEPT ![p] = NoLocal]
    /\ ret' = [ret EXCEPT ![p] = Pending]
    /\ pc' = [pc EXCEPT ![p] = at]
    /\ locks' = [locks EXCEPT ![lock] = Acquire(@, p, mode)]

\* The method returns r; every guard it still holds is dropped.
Return(p, r) ==
    /\ ret' = [ret EXCEPT ![p] = r]
    /\ pc' = [pc EXCEPT ![p] = "idle"]

(* ------------------------- register_service ---------------------------- *)

CallRegisterService(p) ==
    \E s \in ServiceInputs :
        /\ Start(p, "register_service", [NoCall EXCEPT !.id = s.id, !.service = s],
                 "services", "write", "register_insert")
        /\ latest' = Begin(latest, s.id, p, "register_service")
        /\ UNCHANGED <<services, tools, message_queue, enqueued, delivered, limit>>

RegisterInsert(p) ==
    /\ pc[p] = "register_insert"
    /\ HoldsWrite("services", p)
    /\ services' = MapInsert(services, call[p].service.id, call[p].service)
    /\ locks' = [locks EXCEPT !["services"] = Release(@, p)]
    /\ Return(p, Ok(<<>>))
    /\ latest' = Finish(latest, call[p].id, p)
    /\ UNCHANGED <<tools, message_queue, call, local, calls, enqueued, delivered,
                   limit>>

(* ------------------------ deregister_service --------------------------- *)

CallDeregisterService(p) ==
    \E id \in ServiceIdInputs :
        /\ Start(p, "deregister_service", [NoCall EXCEPT !.id = id],
                 "services", "write", "deregister_remove")
        /\ latest' = Begin(latest, id, p, "deregister_service")
        /\ UNCHANGED <<services, tools, message_queue, enqueued, delivered, limit>>

\* A removal that drops the services guard before it asks for the tools lock.
DeregisterRemoveReleasing(p) ==
    /\ pc[p] = "deregister_remove"
    /\ HoldsWrite("services", p)
    /\ services' = MapRemove(services, call[p].id)
    /\ locks' = [locks EXCEPT !["services"] = Release(@, p),
                              !["tools"] = Acquire(@, p, "write")]
    /\ local' = [local EXCEPT ![p].removed = call[p].id \in DOMAIN services]
    /\ pc' = [pc EXCEPT ![p] = "deregister_retain"]
    /\ UNCHANGED <<tools, message_queue, call, ret, calls, enqueued,
                   delivered, latest, limit>>

\* services.remove(service_id), then self.tools.write().await with the
\* services guard still alive
DeregisterRemove(p) ==
    /\ pc[p] = "deregister_remove"
    /\ HoldsWrite("services", p)
    /\ services' = MapRemove(services, call[p].id)
    /\ locks' = [locks EXCEPT !["tools"] = Acquire(@, p, "write")]
    /\ local' = [local EXCEPT ![p].removed = call[p].id \in DOMAIN services]
    /\ pc' = [pc EXCEPT ![p] = "deregister_retain"]
    /\ UNCHANGED <<tools, message_queue, call, ret, calls, enqueued,
                   delivered, latest, limit>>

\* A strict deregistration: an id that was not registered is an error.
DeregisterResultStrict(removed, id) ==
    IF removed THEN Ok(<<>>) ELSE Err(NotFound("Service", id))

\* A cascade that also drops the queued envelopes addressed to the service.
DeregisterRetainPurging(p) ==
    /\ pc[p] = "deregister_retain"
    /\ HoldsWrite("tools", p)
    /\ tools' = RetainOtherServices(tools, call[p].id)
    /\ message_queue' = SelectSeq(message_queue, LAMBDA m : m.target # call[p].id)
    /\ locks' = [locks EXCEPT !["tools"] = Release(@, p),
                              !["services"] = Release(@, p)]
    /\ Return(p, Ok(<<>>))
    /\ latest' = Finish(latest, call[p].id, p)
    /\ UNCHANGED <<services, call, local, calls, enqueued, delivered, limit>>

\* A return that drops the tools guard and keeps the services guard.
DeregisterRetainKeepingServices(p) ==
    /\ pc[p] = "deregister_retain"
    /\ HoldsWrite("tools", p)
    /\ tools' = RetainOtherServices(tools, call[p].id)
    /\ locks' = [locks EXCEPT !["tools"] = Release(@, p)]
    /\ Return(p, Ok(<<>>))
    /\ latest' = Finish(latest, call[p].id, p)
    /\ UNCHANGED <<services, message_queue, call, local, calls, enqueued, delivered,
                   limit>>

\* Ok(()): what services.remove(..) returned is not looked at
DeregisterResult(removed, id) == Ok(<<>>)

\* tools.retain(..), Ok(()): both guards are dropped at the return
DeregisterRetain(p) ==
    /\ pc[p] = "deregister_retain"
    /\ HoldsWrite("tools", p)
    /\ tools' = RetainOtherServices(tools, call[p].id)
    /\ locks' = [locks EXCEPT !["tools"] = Release(@, p),
                              !["services"] = Release(@, p)]
    /\ Return(p, DeregisterResult(local[p].removed, call[p].id))
    /\ latest' = Finish(latest, call[p].id, p)
    /\ UNCHANGED <<services, message_queue, call, local, calls, enqueued, delivered,
                   limit>>

(* ------------------- get_services, get_tools, discover ----------------- *)

CallGetServices(p) ==
    /\ Start(p, "get_services", NoCall, "services", "read", "get_services")
    /\ UNCHANGED <<services, tools, message_queue, enqueued, delivered, latest, limit>>

GetServices(p) ==
    /\ pc[p] = "get_services"
    /\ HoldsRead("services", p)
    /\ locks' = [locks EXCEPT !["services"] = Release(@, p)]
    /\ Return(p, Ok(MapValues(services)))
    /\ UNCHANGED <<services, tools, message_queue, call, local, calls, enqueued,
                   delivered, latest, limit>>

CallGetTools(p) ==
    /\ Start(p, "get_tools", NoCall, "tools", "read", "get_tools")
    /\ UNCHANGED <<services, tools, message_queue, enqueued, delivered, latest, limit>>

GetTools(p) ==
    /\ pc[p] = "get_tools"
    /\ HoldsRead("tools", p)
    /\ locks' = [locks EXCEPT !["tools"] = Release(@, p)]
    /\ Return(p, Ok(MapValues(tools)))
    /\ UNCHANGED <<services, tools, message_queue, call, local, calls, enqueued,
                   delivered, latest, limit>>

\* format!("{} ({})", tool.name, tool.service_id)
ToolSummary(tool) == <<tool.name, " (", tool.service_id, ")">>

CallDiscoverTools(p) ==
    /\ Start(p, "discover_tools", NoCall, "tools", "read", "discover_tools")
    /\ UNCHANGED <<services, tools, message_queue, enqueued, delivered, latest, limit>>

DiscoverTools(p) ==
    /\ pc[p] = "discover_tools"
    /\ HoldsRead("tools", p)
    /\ locks' = [locks EXCEPT !["tools"] = Release(@, p)]
    /\ Return(p, Ok({ToolSummary(t) : t \in MapValues(tools)}))
    /\ UNCHANGED <<services, tools, message_queue, call, local, calls, enqueued,
                   delivered, latest, limit>>

(* ------------------- send_message, receive_messages -------------------- *)

\* A push into a ring of two slots: the oldest envelope gives way.
PushRing(queue, message) ==
    IF Len(queue) >= 2 THEN Append(Tail(queue), message) ELSE Append(queue, message)

PushTwice(queue, message) == Append(Append(queue, message), message)

PushFront(queue, message) == <<message>> \o queue

\* Vec::push
Push(queue, message) == Append(queue, message)

DrainedButLast(queue) == SubSeq(queue, 1, Len(queue) - 1)

\* Vec::drain(..).collect(): what is returned, and what is left
Drained(queue) == queue

AfterDrainKeepsAll(queue) == queue

AfterDrainKeepsLast(queue) ==
    IF queue = <<>> THEN queue ELSE <<queue[Len(queue)]>>

AfterDrain(queue) == SubSeq(queue, Len(queue) + 1, Len(queue))

\* The caller's envelope carries an id generated for this send: the number of
\* the call stands for it.
CallSendMessage(p) ==
    \E e \in EnvelopeInputs :
        /\ Start(p, "send_message",
                 [NoCall EXCEPT !.message = MCPMessage(calls + 1, e.message_type,
                                               e.source, e.target, NoPayload)],
                 "message_queue", "write", "send_push")
        /\ UNCHANGED <<services, tools, message_queue, enqueued, delivered, latest,
                       limit>>

\* The result of a send into a queue of capacity one.
SendResultBounded(queue) ==
    IF Len(queue) > 1 THEN Err(<<"Message queue is full">>) ELSE Ok(<<>>)

\* Ok(()): the queue is a Vec, a push on it reports nothing
SendResult(queue) == Ok(<<>>)

SendPush(p) ==
    /\ pc[p] = "send_push"
    /\ HoldsWrite("message_queue", p)
    /\ message_queue' = Push(message_queue, call[p].message)
    /\ enqueued' = Append(enqueued, call[p].message)
    /\ locks' = [locks EXCEPT !["message_queue"] = Release(@, p)]
    /\ Return(p, SendResult(message_queue'))
    /\ UNCHANGED <<services, tools, call, local, calls, delivered, latest, limit>>

\* call.seen (history): how many sends had completed when the drain was called;
\* local.upto (history): how many envelopes the drains had returned after it
CallReceiveMessages(p) ==
    /\ Start(p, "receive_messages", [NoCall EXCEPT !.seen = Len(enqueued)],
             "message_queue", "write", "receive_drain")
    /\ UNCHANGED <<services, tools, message_queue, enqueued, delivered, latest, limit>>

ReceiveDrain(p) ==
    /\ pc[p] = "receive_drain"
    /\ HoldsWrite("message_queue", p)
    /\ message_queue' = AfterDrain(message_queue)
    /\ delivered' = delivered \o Drained(message_queue)
    /\ locks' = [locks EXCEPT !["message_queue"] = Release(@, p)]
    /\ local' = [local EXCEPT ![p].upto = Len(delivered')]
    /\ Return(p, Ok(Drained(message_queue)))
    /\ UNCHANGED <<services, tools, call, calls, enqueued, latest, limit>>

(* ---------------------------- health_check ----------------------------- *)

CallHealthCheck(p) ==
    /\ Start(p, "health_check", NoCall, "services", "read", "health_check")
    /\ UNCHANGED <<services, tools, message_queue, enqueued, delivered, latest, limit>>

\* The whole loop over a map m: every id with the status stored for it.
HealthStatus(m) == [id \in DOMAIN m |-> m[id].status]

\* The entries of services.iter() the loop has not visited yet.
HealthPending(p) == DOMAIN services \ DOMAIN local[p].health_status

\* One turn of the loop that takes the read guard anew for each entry.
HealthInsertRelocking(p) ==
    /\ pc[p] = "health_check"
    /\ HoldsRead("services", p)
    /\ \E id \in HealthPending(p) :
           local' = [local EXCEPT ![p].health_status =
                        MapInsert(@, id, services[id].status)]
    /\ locks' = [locks EXCEPT !["services"] = Acquire(Release(@, p), p, "read")]
    /\ UNCHANGED <<services, tools, message_queue, pc, call, ret, calls, enqueued,
                   delivered, latest, limit>>

\* One turn of the loop: health_status.insert(service_id.clone(), status),
\* in the order the HashMap yields its entries, the read guard held throughout.
HealthInsert(p) ==
    /\ pc[p] = "health_check"
    /\ HoldsRead("services", p)
    /\ \E id \in HealthPending(p) :
           local' = [local EXCEPT ![p].health_status =
                        MapInsert(@, id, services[id].status)]
    /\ UNCHANGED <<services, tools, message_queue, locks, pc, call, ret, calls,
                   enqueued, delivered, latest, limit>>

\* A health check that drops from the registry the services it finds Offline.
HealthCheckPruning(p) ==
    /\ pc[p] = "health_check"
    /\ HoldsRead("services", p)
    /\ HealthPending(p) = {}
    /\ services' = [id \in {x \in DOMAIN services : services[x].status # "Offline"} |->
                       services[id]]
    /\ locks' = [locks EXCEPT !["services"] = Release(@, p)]
    /\ Return(p, Ok(local[p].health_status))
    /\ UNCHANGED <<tools, message_queue, call, local, calls, enqueued,
                   delivered, latest, limit>>

\* The iterator is exhausted: Ok(health_status), the read guard is dropped.
HealthCheck(p) ==
    /\ pc[p] = "health_check"
    /\ HoldsRead("services", p)
    /\ HealthPending(p) = {}
    /\ locks' = [locks EXCEPT !["services"] = Release(@, p)]
    /\ Return(p, Ok(local[p].health_status))
    /\ UNCHANGED <<services, tools, message_queue, call, local, calls, enqueued,
                   delivered, latest, limit>>

(* ---------------------------- execute_tool ----------------------------- *)

CallExecuteTool(p) ==
    \E id \in ToolIdInputs, prm \in ParamInputs :
        /\ Start(p, "execute_tool",
                 [NoCall EXCEPT !.id = id, !.parameters = prm],
                 "tools", "read", "execute_lookup")
        /\ UNCHANGED <<services, tools, message_queue, enqueued, delivered, latest,
                       limit>>

ExecutionMessageToTool(uuid, tool_id, tool, parameters) ==
    MCPMessage(uuid, "Request", "coordinator", tool.id,
               [tool_id |-> tool_id, parameters |-> parameters])

\* The envelope of lines 284-294; Uuid::new_v4() is the number of the call.
ExecutionMessage(uuid, tool_id, tool, parameters) ==
    MCPMessage(uuid, "Request", "coordinator", tool.service_id,
               [tool_id |-> tool_id, parameters |-> parameters])

\* json!({"status": "success", "result": format!("Tool '{}' executed successfully", ..)})
ExecutionResult(tool) ==
    [status |-> "success", result |-> <<"Tool '", tool.name, "' executed successfully">>]

\* A lookup that drops the tools read guard before the send.
ExecuteLookupReleasing(p) ==
    /\ pc[p] = "execute_lookup"
    /\ HoldsRead("tools", p)
    /\ LET tool == Lookup(tools, "Tool", call[p].id)
       IN  IF tool.status = "ok"
           THEN /\ local' = [local EXCEPT ![p] =
                        [NoLocal EXCEPT
                            !.tool = tool.value,
                            !.message = ExecutionMessage(call[p].number, call[p].id,
                                            tool.value, call[p].parameters)]]
                /\ locks' = [locks EXCEPT !["tools"] = Release(@, p),
                                          !["message_queue"] = Acquire(@, p, "write")]
                /\ pc' = [pc EXCEPT ![p] = "execute_send"]
                /\ UNCHANGED ret
           ELSE /\ locks' = [locks EXCEPT !["tools"] = Release(@, p)]
                /\ Return(p, tool)
                /\ UNCHANGED local
    /\ UNCHANGED <<services, tools, message_queue, call, calls, enqueued, delivered,
                   latest, limit>>

\* tools.get(tool_id).ok_or_else(..)?, the envelope, and send_message's
\* self.message_queue.write().await, the tools read guard still alive
ExecuteLookup(p) ==
    /\ pc[p] = "execute_lookup"
    /\ HoldsRead("tools", p)
    /\ LET tool == Lookup(tools, "Tool", call[p].id)
       IN  IF tool.status = "ok"
           THEN /\ local' = [local EXCEPT ![p] =
                        [NoLocal EXCEPT
                            !.tool = tool.value,
                            !.message = ExecutionMessage(call[p].number, call[p].id,
                                            tool.value, call[p].parameters)]]
                /\ locks' = [locks EXCEPT !["message_queue"] = Acquire(@, p, "write")]
                /\ pc' = [pc EXCEPT ![p] = "execute_send"]
                /\ UNCHANGED ret
           ELSE /\ locks' = [locks EXCEPT !["tools"] = Release(@, p)]
                /\ Return(p, tool)
                /\ UNCHANGED local
    /\ UNCHANGED <<services, tools, message_queue, call, calls, enqueued, delivered,
                   latest, limit>>

\* send_message's body, run inside execute_tool
ExecuteSend(p) ==
    /\ pc[p] = "execute_send"
    /\ HoldsWrite("message_queue", p)
    /\ message_queue' = Push(message_queue, local[p].message)
    /\ enqueued' = Append(enqueued, local[p].message)
    /\ locks' = [locks EXCEPT !["message_queue"] = Release(@, p)]
    /\ pc' = [pc EXCEPT ![p] = "execute_result"]
    /\ UNCHANGED <<services, tools, call, local, ret, calls, delivered, latest, limit>>

\* "Simulate tool execution result": lines 299-304, then the tools guard drops
ExecuteResult(p) ==
    /\ pc[p] = "execute_result"
    /\ locks' = [locks EXCEPT !["tools"] = Release(@, p)]
    /\ Return(p, Ok(ExecutionResult(local[p].tool)))
    /\ UNCHANGED <<services, tools, message_queue, call, local, calls, enqueued,
                   delivered, latest, limit>>

(* -------------- get_service_capabilities, get_tool_schema -------------- *)

CallGetServiceCapabilities(p) ==
    \E id \in ServiceIdInputs :
        /\ Start(p, "get_service_capabilities", [NoCall EXCEPT !.id = id],
                 "services", "read", "capabilities_lookup")
        /\ UNCHANGED <<services, tools, message_queue, enqueued, delivered, latest,
                       limit>>

GetServiceCapabilities(p) ==
    /\ pc[p] = "capabilities_lookup"
    /\ HoldsRead("services", p)
    /\ locks' = [locks EXCEPT !["services"] = Release(@, p)]
    /\ LET service == Lookup(services, "Service", call[p].id)
       IN  Return(p, IF service.status = "ok"
                     THEN Ok(service.value.capabilities) ELSE service)
    /\ UNCHANGED <<services, tools, message_queue, call, local, calls, enqueued,
                   delivered, latest, limit>>

CallGetToolSchema(p) ==
    \E id \in ToolIdInputs :
        /\ Start(p, "get_tool_schema", [NoCall EXCEPT !.id = id],
                 "tools", "read", "schema_lookup")
        /\ UNCHANGED <<services, tools, message_queue, enqueued, delivered, latest,
                       limit>>

GetToolSchema(p) ==
    /\ pc[p] = "schema_lookup"
    /\ HoldsRead("tools", p)
    /\ locks' = [locks EXCEPT !["tools"] = Release(@, p)]
    /\ LET tool == Lookup(tools, "Tool", call[p].id)
       IN  Return(p, IF tool.status = "ok" THEN Ok(tool.value.schema) ELSE tool)
    /\ UNCHANGED <<services, tools, message_queue, call, local, calls, enqueued,
                   delivered, latest, limit>>

(* ------------------------------- Next ---------------------------------- *)

RegistryStep(p) ==
    \/ CallRegisterService(p)
    \/ RegisterInsert(p)
    \/ CallDeregisterService(p)
    \/ DeregisterRemove(p)
    \/ DeregisterRetain(p)
    \/ CallGetServices(p)
    \/ GetServices(p)
    \/ CallGetTools(p)
    \/ GetTools(p)

QueueStep(p) ==
    \/ CallSendMessage(p)
    \/ SendPush(p)
    \/ CallReceiveMessages(p)
    \/ ReceiveDrain(p)
    \/ CallExecuteTool(p)
    \/ ExecuteLookup(p)
    \/ ExecuteSend(p)
    \/ ExecuteResult(p)

LookupStep(p) ==
    \/ CallDiscoverTools(p)
    \/ DiscoverTools(p)
    \/ CallHealthCheck(p)
    \/ HealthInsert(p)
    \/ HealthCheck(p)
    \/ CallGetServiceCapabilities(p)
    \/ GetServiceCapabilities(p)
    \/ CallGetToolSchema(p)
    \/ GetToolSchema(p)

\* Every method, called by concurrent callers.
Next == \E p \in Procs : RegistryStep(p) \/ QueueStep(p) \/ LookupStep(p)

Spec == Init /\ [][Next]_vars

\* The registry methods alone.
NextRegistry == \E p \in Procs : RegistryStep(p)

SpecRegistry == InitWith(MaxRegistryCalls) /\ [][NextRegistry]_vars

\* The queue methods, and deregister_service racing with execute_tool.
NextQueue ==
    \E p \in Procs :
        \/ QueueStep(p)
        \/ CallDeregisterService(p)
        \/ DeregisterRemove(p)
        \/ DeregisterRetain(p)

SpecQueue == InitWith(MaxQueueCalls) /\ [][NextQueue]_vars

\* execute_tool and deregister_service, called by three concurrent callers.
NextExecute ==
    \E p \in ExecuteProcs :
        \/ CallExecuteTool(p)
        \/ ExecuteLookup(p)
        \/ ExecuteSend(p)
        \/ ExecuteResult(p)
        \/ CallDeregisterService(p)
        \/ DeregisterRemove(p)
        \/ DeregisterRetain(p)

SpecExecute == InitFor(MaxExecuteCalls, ExecuteProcs) /\ [][NextExecute]_vars

\* deregister_service and the methods that observe the registries, called by
\* three concurrent callers.
NextObserve ==
    \E p \in ExecuteProcs :
        \/ CallDeregisterService(p)
        \/ DeregisterRemove(p)
        \/ DeregisterRetain(p)
        \/ CallGetServices(p)
        \/ GetServices(p)
        \/ CallGetTools(p)
        \/ GetTools(p)
        \/ CallHealthCheck(p)
        \/ HealthInsert(p)
        \/ HealthCheck(p)

SpecObserve == InitFor(MaxObserveCalls, ExecuteProcs) /\ [][NextObserve]_vars

\* The steps of a call under way whose lock has been granted: the task has been
\* woken and the runtime polls it.
Continue(p) ==
    \/ ExecuteLookup(p)
    \/ ExecuteSend(p)
    \/ ExecuteResult(p)
    \/ DeregisterRemove(p)
    \/ DeregisterRetain(p)
    \/ ReceiveDrain(p)

\* execute_tool, deregister_service and receive_messages, called by three
\* concurrent callers; a task that can go on is polled in the end.
NextLive ==
    \E p \in ExecuteProcs :
        \/ CallExecuteTool(p)
        \/ CallDeregisterService(p)
        \/ CallReceiveMessages(p)
        \/ Continue(p)

SpecLive ==
    /\ InitFor(MaxLiveCalls, ExecuteProcs)
    /\ [][NextLive]_vars
    /\ \A p \in ExecuteProcs : WF_vars(Continue(p))

(* ------------------------------ claims --------------------------------- *)

Returned(p, op) == call[p].op = op /\ pc[p] = "idle" /\ ret[p].status # "pending"

Quiescent == \A p \in Procs : pc[p] = "idle"

\* C1: the step of deregister_service(S) that ends the call removes from the
\* tool registry exactly the tools whose service_id is S and leaves every other
\* tool as it was, and get_tools returns the registry it reads: the tools not
\* owned by S are still listed afterwards.
C1_DeregisterRemovesOwnedToolsOnly ==
    [][\A p \in Procs :
          /\ (pc[p] = "deregister_retain" /\ pc'[p] = "idle") =>
                /\ DOMAIN tools' =
                       {t \in DOMAIN tools : tools[t].service_id # call[p].id}
                /\ \A t \in DOMAIN tools' : tools'[t] = tools[t]
          /\ (pc[p] = "get_tools" /\ pc'[p] = "idle") =>
                ret'[p] = Ok({tools[t] : t \in DOMAIN tools})]_vars

C1_Witness ==
    \E p, q \in Procs :
        /\ Returned(p, "deregister_service")
        /\ call[p].id = "stagewise_mcp"
        /\ Returned(q, "get_tools")
        /\ ret[q] = Ok({DefaultTools["component_generator"],
                        DefaultTools["organic_agent"]})
        /\ DOMAIN tools = {"component_generator", "organic_agent"}

\* C2: once every call has returned, each service id the callers used is in
\* the service registry exactly if the last call of some serial order of the
\* calls on that id (one that respects which call returned before which
\* began) is a register_service, the seeded ids no call named are still
\* there, and each id is listed once, under its own key.
C2_RegistryIsSerialOutcome ==
    Quiescent =>
        /\ \A id \in ServiceIdInputs :
              IF latest[id] = {}
              THEN (id \in DOMAIN services) <=> (id \in DOMAIN DefaultServices)
              ELSE \E c \in latest[id] :
                      (id \in DOMAIN services) <=> (c.op = "register_service")
        /\ DOMAIN services \ ServiceIdInputs = DOMAIN DefaultServices \ ServiceIdInputs
        /\ \A id \in DOMAIN services : services[id].id = id
        /\ \A p \in Procs : Returned(p, "get_services") =>
              \A a, b \in ret[p].value : a.id = b.id => a = b

C2_Witness ==
    /\ Quiescent
    /\ "svc1" \in DOMAIN services
    /\ \E c, d \in latest["svc1"] :
          c.op = "register_service" /\ d.op = "deregister_service"
    /\ \E p \in Procs : Returned(p, "get_services") /\ Cardinality(ret[p].value) = 4

\* Every envelope the queue has held, drained ones first.
Stored == delivered \o message_queue

\* The places of sequence s that hold an envelope with this id.
Places(s, id) == {i \in 1..Len(s) : s[i].id = id}

\* The lookup of the running (or last) execute_tool call of p found its tool.
Found(p) == call[p].op = "execute_tool" /\ local[p].tool.id = call[p].id

\* C3: an execute_tool call whose lookup finds the tool has put no envelope in
\* the queue before its send, and exactly one, a Request, from its send on and
\* when it has returned; it returns success; and an execute_tool call fails
\* only when its tool is not registered.
C3_ExecuteEnqueuesExactlyOne ==
    \A p \in Procs :
        /\ (Found(p) /\ pc[p] = "execute_send") =>
              Places(Stored, call[p].number) = {}
        /\ (Found(p) /\ pc[p] \in {"execute_result", "idle"}) =>
              /\ Cardinality(Places(Stored, call[p].number)) = 1
              /\ \A i \in Places(Stored, call[p].number) :
                    Stored[i].message_type = "Request"
        /\ (Found(p) /\ pc[p] = "idle") => ret[p].status = "ok"
        /\ (Returned(p, "execute_tool") /\ ret[p].status = "err") =>
              call[p].id \notin DOMAIN tools

C3_Witness ==
    \E p \in Procs :
        /\ Returned(p, "execute_tool")
        /\ call[p].id = "visual_editor"
        /\ ret[p].status = "ok"
        /\ Len(message_queue) = 2
        /\ Cardinality(Places(message_queue, call[p].number)) = 1

\* C4: the lookup step of execute_tool on a tool id that is not in the tool
\* registry ends the call with the error "Tool '<id>' not found": the call
\* never reaches the send or the execution result, and the queue and the log of
\* pushed envelopes are as they were.
C4_ExecuteUnknownToolFails ==
    [][\A p \in Procs :
          (/\ pc[p] = "execute_lookup"
           /\ pc'[p] # "execute_lookup"
           /\ call[p].id \notin DOMAIN tools) =>
              /\ pc'[p] = "idle"
              /\ ret'[p] = Err(<<"Tool", " '", call[p].id, "' not found">>)
              /\ message_queue' = message_queue
              /\ enqueued' = enqueued
              /\ locks'["message_queue"] = locks["message_queue"]]_vars

C4_Witness ==
    \E p \in Procs :
        /\ Returned(p, "execute_tool")
        /\ call[p].id = "visual_editor"
        /\ ret[p] = Err(<<"Tool", " '", "visual_editor", "' not found">>)
        /\ Len(message_queue) = 1
        /\ Places(Stored, call[p].number) = {}

\* Sequence s lists its envelopes in the order in which they were pushed.
InPushOrder(s) ==
    \A i, j \in 1..Len(s) :
        i < j => \E a, b \in 1..Len(enqueued) :
                    a < b /\ enqueued[a] = s[i] /\ enqueued[b] = s[j]

Occurrences(s, m) == Cardinality({i \in 1..Len(s) : s[i] = m})

\* C6: every envelope a send has pushed was pushed once and is, whole, either
\* in the result of exactly one drain or still in the queue, never both and
\* never twice; and the drains and the queue hold nothing that was not pushed.
C6_NoEnvelopeLostOrDuplicated ==
    /\ \A i \in 1..Len(enqueued) :
          /\ Occurrences(enqueued, enqueued[i]) = 1
          /\ Cardinality(Places(enqueued, enqueued[i].id)) = 1
          /\ Occurrences(delivered, enqueued[i])
                + Occurrences(message_queue, enqueued[i]) = 1
    /\ Len(delivered) + Len(message_queue) = Len(enqueued)

C6_Witness ==
    \E p, q \in Procs :
        /\ Returned(p, "receive_messages")
        /\ Len(ret[p].value) = 1
        /\ Returned(q, "send_message")
        /\ call[q].number > call[p].number
        /\ message_queue = <<call[q].message>>
        /\ Len(enqueued) = 2

\* C7: when a drain has returned, every envelope whose send had completed when
\* the drain was called is among the envelopes the drains had returned by then
\* (this drain's included), and this drain's result is the last of them.
C7_DrainSeesCompletedSends ==
    \A p \in Procs :
        Returned(p, "receive_messages") =>
            /\ local[p].upto <= Len(delivered)
            /\ ret[p].value =
                  SubSeq(delivered, local[p].upto - Len(ret[p].value) + 1, local[p].upto)
            /\ \A i \in 1..call[p].seen :
                  \E j \in 1..local[p].upto : delivered[j] = enqueued[i]

C7_Witness ==
    \E p \in Procs :
        /\ Returned(p, "receive_messages")
        /\ call[p].seen = 2
        /\ local[p].upto = 2
        /\ Len(ret[p].value) = 2

\* C8: a drain leaves the queue empty, every pushed envelope returned; and a
\* drain that runs when every pushed envelope has been returned already (no
\* send since the drain before it) returns the empty sequence.
C8_DrainEmptiesQueue ==
    [][\A p \in Procs :
          (pc[p] = "receive_drain" /\ pc'[p] = "idle") =>
              /\ message_queue' = <<>>
              /\ Len(delivered') = Len(enqueued')
              /\ (Len(delivered) = Len(enqueued)) => (ret'[p] = Ok(<<>>))]_vars

C8_Witness ==
    \E p, q \in Procs :
        /\ p # q
        /\ Returned(p, "receive_messages")
        /\ Returned(q, "receive_messages")
        /\ Len(ret[p].value) = 1
        /\ call[q].number > call[p].number
        /\ call[q].seen = 1
        /\ ret[q] = Ok(<<>>)
        /\ message_queue = <<>>

\* C9: the envelope of an execute_tool call that has done its send is in the
\* queue or in a drain's result with message_type Request, source
\* "coordinator", the seeded service_id of the requested tool as target, and a
\* payload of the tool_id and the parameters the caller passed.
C9_ExecuteEnvelopeFields ==
    \A p \in Procs :
        (Found(p) /\ pc[p] \in {"execute_result", "idle"}) =>
            /\ call[p].id \in DOMAIN DefaultTools
            /\ \E i \in 1..Len(Stored) :
                  Stored[i] =
                      [id |-> call[p].number,
                       message_type |-> "Request",
                       source |-> "coordinator",
                       target |-> DefaultTools[call[p].id].service_id,
                       payload |-> [tool_id |-> call[p].id,
                                    parameters |-> call[p].parameters]]

C9_Witness ==
    \E p \in Procs :
        /\ Returned(p, "execute_tool")
        /\ call[p].id = "component_generator"
        /\ call[p].parameters = [x |-> 2]
        /\ \E i \in 1..Len(delivered) :
              /\ delivered[i].id = call[p].number
              /\ delivered[i].target = "ag_ui_mcp"
              /\ delivered[i].payload = [tool_id |-> "component_generator",
                                         parameters |-> [x |-> 2]]

\* The executor stub of the specification's scenario: it echoes the parameters.
EchoExecutor(tool_id, parameters) == <<"echo", parameters>>

\* C10: a successful execute_tool returns status "success" and, as result,
\* the executor's output for the tool_id and parameters of the call.
C10_ExecuteReturnsExecutorOutput ==
    \A p \in Procs :
        (Returned(p, "execute_tool") /\ ret[p].status = "ok") =>
            /\ ret[p].value.status = "success"
            /\ ret[p].value.result = EchoExecutor(call[p].id, call[p].parameters)

\* An executor that fails on every call, with this cause.
FailingExecutor(tool_id, parameters) == Err(<<"executor failed">>)

\* C11: when the executor fails for a registered tool, execute_tool returns
\* the failure ExecutionFailed(tool_id, cause) and no success outcome.
C11_ExecuteReturnsExecutorFailure ==
    \A p \in Procs :
        (/\ Found(p)
         /\ pc[p] = "idle"
         /\ FailingExecutor(call[p].id, call[p].parameters).status = "err") =>
            ret[p] = Err(<<"ExecutionFailed", call[p].id,
                           FailingExecutor(call[p].id, call[p].parameters).value>>)

\* C12: when get_tool_schema(T) looks T up after a deregister_service(S) has
\* returned, S being the service that owns T, the call fails with the error
\* "Tool '<T>' not found".
C12_SchemaFailsAfterDeregister ==
    [][\A p \in Procs :
          (/\ pc[p] = "schema_lookup"
           /\ pc'[p] = "idle"
           /\ call[p].id \in DOMAIN DefaultTools
           /\ \E q \in Procs :
                 /\ Returned(q, "deregister_service")
                 /\ call[q].id = DefaultTools[call[p].id].service_id) =>
              ret'[p] = Err(<<"Tool", " '", call[p].id, "' not found">>)]_vars

C12_Witness ==
    \E p, q \in Procs :
        /\ Returned(q, "deregister_service")
        /\ call[q].id = "ag_ui_mcp"
        /\ ret[q] = Ok(<<>>)
        /\ Returned(p, "get_tool_schema")
        /\ call[p].id = "component_generator"
        /\ call[q].number < call[p].number
        /\ ret[p] = Err(<<"Tool", " '", "component_generator", "' not found">>)

\* C13: the lookup step of get_service_capabilities(id) returns the capability
\* set stored for id when id is in the service registry and the error
\* "Service '<id>' not found" when it is not; the lookup step of
\* get_tool_schema(id) returns the schema stored for id when id is in the tool
\* registry and the error "Tool '<id>' not found" when it is not.
C13_LookupsReturnStoredOrNotFound ==
    [][\A p \in Procs :
          /\ (pc[p] = "capabilities_lookup" /\ pc'[p] = "idle") =>
                ret'[p] = IF call[p].id \in DOMAIN services
                          THEN Ok(services[call[p].id].capabilities)
                          ELSE Err(<<"Service", " '", call[p].id, "' not found">>)
          /\ (pc[p] = "schema_lookup" /\ pc'[p] = "idle") =>
                ret'[p] = IF call[p].id \in DOMAIN tools
                          THEN Ok(tools[call[p].id].schema)
                          ELSE Err(<<"Tool", " '", call[p].id, "' not found">>)]_vars

C13_Witness ==
    \E p, q \in Procs :
        /\ Returned(p, "get_service_capabilities")
        /\ call[p].id = "svc1"
        /\ ret[p] = Err(<<"Service", " '", "svc1", "' not found">>)
        /\ Returned(q, "get_tool_schema")
        /\ call[q].id = "visual_editor"
        /\ ret[q] = Ok(DefaultTools["visual_editor"].schema)

\* C14: a register_service call on an id that is already in the service
\* registry stores the service it was given under that id, leaves the set of
\* registered ids and every other entry as they were, and neither of its steps
\* changes the tool registry or the queue.
C14_RegisterReplaces ==
    [][\A p \in Procs :
          /\ (pc[p] = "idle" /\ pc'[p] = "register_insert") =>
                /\ services' = services
                /\ tools' = tools
                /\ message_queue' = message_queue
          /\ (/\ pc[p] = "register_insert"
              /\ pc'[p] = "idle"
              /\ call[p].id \in DOMAIN services) =>
                /\ services'[call[p].id] = call[p].service
                /\ DOMAIN services' = DOMAIN services
                /\ \A id \in DOMAIN services \ {call[p].id} :
                      services'[id] = services[id]
                /\ tools' = tools
                /\ message_queue' = message_queue
                /\ ret'[p] = Ok(<<>>)]_vars

C14_Witness ==
    \E p \in Procs :
        /\ Returned(p, "register_service")
        /\ call[p].id = "stagewise_mcp"
        /\ call[p].service # DefaultServices["stagewise_mcp"]
        /\ DOMAIN services = DOMAIN DefaultServices
        /\ services["stagewise_mcp"] = call[p].service
        /\ tools = DefaultTools
        /\ Len(message_queue) = 1

\* C15: a deregister_service call on an id that is not in the service registry
\* changes neither the service registry, the tool registry nor the queue in any
\* of its steps, and returns success.
C15_DeregisterAbsentIsNoOp ==
    [][\A p \in Procs :
          /\ (pc[p] = "idle" /\ pc'[p] = "deregister_remove") =>
                /\ services' = services
                /\ tools' = tools
                /\ message_queue' = message_queue
          /\ (/\ pc[p] = "deregister_remove"
              /\ pc'[p] = "deregister_retain"
              /\ call[p].id \notin DOMAIN services) =>
                /\ ~local'[p].removed
                /\ services' = services
                /\ tools' = tools
                /\ message_queue' = message_queue
          /\ (/\ pc[p] = "deregister_retain"
              /\ pc'[p] = "idle"
              /\ ~local[p].removed) =>
                /\ services' = services
                /\ tools' = tools
                /\ message_queue' = message_queue
                /\ ret'[p] = Ok(<<>>)]_vars

C15_Witness ==
    \E p \in Procs :
        /\ Returned(p, "deregister_service")
        /\ call[p].id = "svc1"
        /\ ~local[p].removed
        /\ ret[p] = Ok(<<>>)
        /\ services = DefaultServices
        /\ tools = DefaultTools
        /\ Len(message_queue) = 1

\* C16: the map health_check returns is, at the step that returns it, the map
\* from each id in the service registry to the status stored for it: its keys
\* are exactly the registered ids and every value is the status of one and the
\* same registry state, whatever register_service and deregister_service calls
\* run beside it; the registry does not change while the loop is under way.
C16_HealthCheckIsSnapshot ==
    [][\A p \in Procs :
          /\ (pc[p] = "health_check" /\ pc'[p] = "idle") =>
                /\ ret'[p] = Ok(HealthStatus(services))
                /\ DOMAIN ret'[p].value = DOMAIN services
          /\ (pc[p] = "health_check" /\ local[p].health_status # NoLocal.health_status) =>
                services' = services]_vars

C16_Witness ==
    \E p, q \in Procs :
        /\ Returned(p, "health_check")
        /\ ret[p] = Ok([id \in DOMAIN DefaultServices |-> "Online"])
        /\ call[p].number < call[q].number
        /\ call[q].op = "register_service"
        /\ call[q].id = "ag_ui_mcp"
        /\ call[q].service.status = "Offline"
        /\ pc[q] = "register_insert"
        /\ HoldsWrite("services", q)

\* C17: at the point where execute_tool has enqueued its envelope and hands
\* off to the executor and produces the execution result, the call holds no
\* lock on the service registry, the tool registry or the queue.
C17_ExecuteResultHoldsNoLock ==
    \A p \in Procs :
        pc[p] = "execute_result" =>
            \A n \in LockNames : ~HoldsRead(n, p) /\ ~HoldsWrite(n, p)

\* C18: while an execute_tool call is between its lookup and its return, an
\* execute_tool call of another caller for a different tool is never kept
\* waiting for the tool registry: it holds its read guard as soon as it has
\* asked for it, also when a deregister_service is waiting to write.
C18_ExecuteNotBlockedByExecute ==
    \A a, b \in DOMAIN pc :
        (/\ a # b
         /\ pc[a] \in {"execute_send", "execute_result"}
         /\ pc[b] = "execute_lookup"
         /\ call[a].id # call[b].id) =>
            HoldsRead("tools", b)

\* The methods that have no failure path.
AlwaysOk ==
    {"register_service", "deregister_service", "send_message", "receive_messages",
     "get_services", "get_tools", "discover_tools", "health_check"}

\* C19: every call that has returned has returned a success or a failure
\* value; a call of register_service, deregister_service, send_message,
\* receive_messages, get_services, get_tools, discover_tools or health_check
\* has returned success; a failure comes from execute_tool,
\* get_service_capabilities or get_tool_schema only, and is the "not found"
\* error for the id the call looked up.
C19_OnlyLookupsFail ==
    \A p \in Procs :
        (pc[p] = "idle" /\ call[p].op # "none") =>
            /\ ret[p].status \in {"ok", "err"}
            /\ call[p].op \in AlwaysOk => ret[p].status = "ok"
            /\ ret[p].status = "err" =>
                  \/ /\ call[p].op \in {"execute_tool", "get_tool_schema"}
                     /\ ret[p].value = <<"Tool", " '", call[p].id, "' not found">>
                  \/ /\ call[p].op = "get_service_capabilities"
                     /\ ret[p].value = <<"Service", " '", call[p].id, "' not found">>

C19_Witness ==
    \E p, q \in Procs :
        /\ Returned(p, "send_message")
        /\ ret[p] = Ok(<<>>)
        /\ Len(message_queue) = 1
        /\ Returned(q, "execute_tool")
        /\ ret[q] = Err(<<"Tool", " '", "tool1", "' not found">>)

\* The status changes of the state machine Connecting -> Online,
\* Online <-> Error, Online <-> Offline.
StatusTransitions ==
    {<<"Connecting", "Online">>, <<"Online", "Error">>, <<"Error", "Online">>,
     <<"Online", "Offline">>, <<"Offline", "Online">>}

\* C20: in every step that leaves a service id registered, the status stored
\* for it either stays as it is or changes along the state machine
\* Connecting -> Online, Online <-> Error, Online <-> Offline.
C20_StatusFollowsStateMachine ==
    [][\A id \in DOMAIN services \cap DOMAIN services' :
          \/ services'[id].status = services[id].status
          \/ <<services[id].status, services'[id].status>> \in StatusTransitions]_vars

\* C21: the status stored for a service id is set by the insert step of a
\* register_service call on that id, to the status the caller supplied, and
\* by nothing else: a step that leaves an id registered leaves its status as
\* it was unless it is such an insert, and an id that enters the registry
\* enters it with the status its register_service supplied.  The seeded ids
\* no register_service has named keep their seeded status.
C21_StatusSetByRegisterOnly ==
    [][/\ \A id \in DOMAIN services' :
             (id \notin DOMAIN services \/ services'[id].status # services[id].status) =>
                 \E p \in Procs :
                     /\ pc[p] = "register_insert"
                     /\ pc'[p] = "idle"
                     /\ call[p].id = id
                     /\ services'[id].status = call[p].service.status
       /\ \A id \in DOMAIN services' \cap DOMAIN DefaultServices :
             (IF id \in ServiceIdInputs THEN latest'[id] = {} ELSE TRUE) =>
                 services'[id].status = DefaultServices[id].status]_vars

C21_Witness ==
    \E p, q \in Procs :
        /\ Returned(p, "register_service")
        /\ call[p].id = "ag_ui_mcp"
        /\ call[p].service.status = "Connecting"
        /\ Returned(q, "health_check")
        /\ call[p].number < call[q].number
        /\ ret[q].value["ag_ui_mcp"] = "Connecting"
        /\ ret[q].value["stagewise_mcp"] = "Online"

\* The methods that only read.
ReadOnly ==
    {"get_services", "get_tools", "discover_tools", "health_check",
     "get_service_capabilities", "get_tool_schema"}

\* C22: no step of a get_services, get_tools, discover_tools, health_check,
\* get_service_capabilities or get_tool_schema call, from the call to the
\* return, changes the service registry, the tool registry or the queue.
C22_ReadOnlyMethodsChangeNothing ==
    [][\A p \in Procs :
          (/\ call'[p].op \in ReadOnly
           /\ \/ pc'[p] # pc[p]
              \/ local'[p] # local[p]) =>
              /\ services' = services
              /\ tools' = tools
              /\ message_queue' = message_queue]_vars

C22_Witness ==
    \E p, q \in Procs :
        /\ Returned(p, "health_check")
        /\ Returned(q, "register_service")
        /\ call[q].service.status = "Offline"
        /\ call[q].id = "svc1"
        /\ call[q].number < call[p].number
        /\ DOMAIN ret[p].value = DOMAIN services
        /\ "svc1" \in DOMAIN services
        /\ services["svc1"].status = "Offline"

\* The locks caller p holds or is waiting for.
HeldOrAwaited(p) ==
    {n \in LockNames :
        \/ HoldsRead(n, p)
        \/ HoldsWrite(n, p)
        \/ \E i \in 1..Len(locks[n].waiters) : locks[n].waiters[i].proc = p}

\* C23: no caller holds the lock of one resource while it acquires, waits for
\* or holds the lock of another: every caller is concerned with at most one of
\* the three locks at a time.
C23_OneLockAtATime ==
    \A p \in Procs : Cardinality(HeldOrAwaited(p)) <= 1

\* The order in which the locks are taken.
LockRank(n) == IF n = "services" THEN 1 ELSE IF n = "tools" THEN 2 ELSE 3

\* Caller p is queued for lock n.
Awaits(n, p) == \E i \in 1..Len(locks[n].waiters) : locks[n].waiters[i].proc = p

\* C24: a caller that waits for a lock holds only locks that come before it in
\* the order service registry, tool registry, queue, and under fair scheduling
\* every call that has been started returns.
C24_EveryCallReturns ==
    /\ [](\A p \in DOMAIN pc : \A n, m \in LockNames :
             (Awaits(n, p) /\ (HoldsRead(m, p) \/ HoldsWrite(m, p))) =>
                 LockRank(m) < LockRank(n))
    /\ \A p \in ExecuteProcs : (pc[p] # "idle") ~> (pc[p] = "idle")

C24_Witness ==
    \E a, d, r \in DOMAIN pc :
        /\ call[a].op = "execute_tool"
        /\ call[d].op = "deregister_service"
        /\ call[r].op = "receive_messages"
        /\ call[a].number < call[d].number
        /\ call[d].number < call[r].number
        /\ pc[a] = "execute_send"
        /\ Awaits("message_queue", a)
        /\ pc[d] = "deregister_retain"
        /\ Awaits("tools", d)
        /\ pc[r] = "receive_drain"
        /\ HoldsWrite("message_queue", r)

\* C25 as stated: at the step of execute_tool that enqueues the Request
\* envelope, the envelope's target is an id in the service registry.
C25_TargetIsRegistered ==
    [][\A p \in Procs :
          (pc[p] = "execute_send" /\ pc'[p] = "execute_result") =>
              local[p].message.target \in DOMAIN services]_vars

\* C25, amended: at the step of execute_tool that enqueues the Request
\* envelope, the tool is in the tool registry and the envelope's target is the
\* service_id stored for it; that service is in the service registry unless a
\* deregister_service of it has removed it and is waiting to remove its tools.
C25_TargetIsOwnerOfRegisteredTool ==
    [][\A p \in Procs :
          (pc[p] = "execute_send" /\ pc'[p] = "execute_result") =>
              /\ call[p].id \in DOMAIN tools
              /\ local[p].message.target = tools[call[p].id].service_id
              /\ message_queue'[Len(message_queue')].target = local[p].message.target
              /\ \/ local[p].message.target \in DOMAIN services
                 \/ \E q \in Procs :
                       /\ pc[q] = "deregister_retain"
                       /\ call[q].id = local[p].message.target]_vars

C25_Witness ==
    \E p, q \in Procs :
        /\ pc[p] = "execute_result"
        /\ call[p].id = "visual_editor"
        /\ message_queue # <<>>
        /\ message_queue[Len(message_queue)].target = "stagewise_mcp"
        /\ "stagewise_mcp" \notin DOMAIN services
        /\ "visual_editor" \in DOMAIN tools
        /\ pc[q] = "deregister_retain"
        /\ call[q].id = "stagewise_mcp"

\* Some deregister_service call has begun and not returned.
DeregisterInProgress ==
    \E p \in DOMAIN pc : call[p].op = "deregister_service" /\ pc[p] # "idle"

\* C26: in every state in which no deregister_service call is in progress, the
\* service_id of every tool in the tool registry is an id in the service
\* registry.
C26_NoOrphanTools ==
    ~DeregisterInProgress =>
        \A t \in DOMAIN tools : tools[t].service_id \in DOMAIN services

C26_Witness ==
    \E p, q \in Procs :
        /\ ~DeregisterInProgress
        /\ Returned(p, "deregister_service")
        /\ call[p].id = "ag_ui_mcp"
        /\ Returned(q, "register_service")
        /\ call[q].id = "svc1"
        /\ DOMAIN services = {"stagewise_mcp", "agent_zero_mcp", "svc1"}
        /\ DOMAIN tools = {"visual_editor", "organic_agent"}

\* The get_services or health_check call of q has returned and shows no
\* service with id sid.
SawAbsent(q, sid) ==
    \/ /\ Returned(q, "get_services")
       /\ \A s \in ret[q].value : s.id # sid
    \/ /\ Returned(q, "health_check")
       /\ sid \notin DOMAIN ret[q].value

\* C27: once a get_services or a health_check has returned a result in which
\* a seeded service S is absent, every get_tools that returns lists no tool
\* whose service_id is S.
C27_CascadeIsAtomicForObservers ==
    [][\A r \in DOMAIN pc :
          (pc[r] = "get_tools" /\ pc'[r] = "idle") =>
              \A q \in DOMAIN pc, sid \in DOMAIN DefaultServices :
                  SawAbsent(q, sid) =>
                      \A t \in ret'[r].value : t.service_id # sid]_vars

C27_Witness ==
    \E d, q, r \in DOMAIN pc :
        /\ Returned(d, "deregister_service")
        /\ call[d].id = "stagewise_mcp"
        /\ SawAbsent(q, "stagewise_mcp")
        /\ call[q].op = "health_check"
        /\ Returned(r, "get_tools")
        /\ call[d].number < call[q].number
        /\ call[q].number < call[r].number
        /\ ret[r] = Ok({DefaultTools["component_generator"],
                        DefaultTools["organic_agent"]})

\* Sequence s is a prefix of sequence t.
IsPrefix(s, t) == Len(s) <= Len(t) /\ SubSeq(t, 1, Len(s)) = s

\* C28: every step other than the drain of a receive_messages call leaves the
\* envelopes already queued as they were and where they were: the queue before
\* the step is a prefix of the queue after it.
C28_QueueIsAppendOnly ==
    [][(\E p \in Procs : pc[p] = "receive_drain" /\ pc'[p] = "idle")
          \/ IsPrefix(message_queue, message_queue')]_vars

C28_Witness ==
    \E p, q \in Procs :
        /\ Len(message_queue) = 3
        /\ Returned(p, "send_message")
        /\ Returned(q, "execute_tool")
        /\ message_queue[1].id < message_queue[2].id
        /\ message_queue[3].source = "coordinator"

\* C29: the tool registry holds seeded tools only, each as it was seeded, owner
\* included; a step changes the tool registry only if it is the retain of a
\* deregister_service, and then tools leave and none enters.
C29_ToolsOnlyShrink ==
    /\ tools = DefaultTools
    /\ [][/\ \A t \in DOMAIN tools' :
                t \in DOMAIN DefaultTools /\ tools'[t] = DefaultTools[t]
          /\ tools' # tools =>
                /\ \E p \in Procs : pc[p] = "deregister_retain" /\ pc'[p] = "idle"
                /\ DOMAIN tools' \subseteq DOMAIN tools
                /\ DOMAIN tools' # DOMAIN tools]_vars

C29_Witness ==
    \E p, q \in Procs :
        /\ Returned(p, "deregister_service")
        /\ call[p].id = "ag_ui_mcp"
        /\ Returned(q, "register_service")
        /\ call[q].id = "ag_ui_mcp"
        /\ call[p].number < call[q].number
        /\ "ag_ui_mcp" \in DOMAIN services
        /\ DOMAIN tools = {"visual_editor", "organic_agent"}

\* Caller p takes a step of a call of one of the methods in ops.
StepOf(p, ops) ==
    /\ call'[p].op \in ops
    /\ pc'[p] # pc[p] \/ local'[p] # local[p]

\* C30: no step of a send_message, receive_messages or execute_tool call
\* changes the service registry or the tool registry, and no step of a
\* register_service or deregister_service call changes the queue.
C30_QueueAndRegistriesAreSeparate ==
    [][\A p \in Procs :
          /\ StepOf(p, {"send_message", "receive_messages", "execute_tool"}) =>
                services' = services /\ tools' = tools
          /\ StepOf(p, {"register_service", "deregister_service"}) =>
                message_queue' = message_queue]_vars

C30_Witness ==
    \E p, q \in Procs :
        /\ Returned(p, "execute_tool")
        /\ call[p].id = "visual_editor"
        /\ Returned(q, "deregister_service")
        /\ call[q].id = "stagewise_mcp"
        /\ "stagewise_mcp" \notin DOMAIN services
        /\ Len(message_queue) = 1
        /\ message_queue[1].target = "stagewise_mcp"

=========================================================================
